---- MODULE Spec2Model ----
(***************************************************************************)
(* One WebSocket session of server.js: the turn-taking flags, the dialogue *)
(* history, the outbound channel and the suspended processTranscript tasks. *)
(* Every action is one run-to-completion step of the Node.js event loop: an *)
(* event handler, or the resumption of an async function after an await up  *)
(* to its next await or its end.                                            *)
(***************************************************************************)
EXTENDS Integers, Sequences, FiniteSets, TLC

\* Bound: the number of turns (processTranscript invocations that pass the
\* trim check) in one session.
MaxTurns == 2

Turns == 1..MaxTurns

\* The id under which the greeting's audio appears on the outbound channel.
GREETING == 0

SP == " "
CH == "a"

\* data.results[0]?.alternatives[0]?.transcript when a link of the chain is
\* missing.
Undefined == <<"undefined">>

\* Transcripts a recognition result may carry: absent, empty, whitespace
\* only, text with surrounding whitespace.
Transcripts == {Undefined, <<>>, <<SP>>, <<SP, CH, SP>>}

\* The text the language model returns.
Replies == {<<"r">>}

VARIABLES
    conversationHistory,  \* sequence of [role, content, turn]; turn is the
                          \* invocation that pushed the entry (bookkeeping)
    isAiSpeaking,
    isInterrupted,
    recognizeStream,      \* "live" | "destroyed"
    readyState,           \* ws.readyState: "OPEN" | "CLOSING" | "CLOSED"
    outbound,             \* what ws.send was given, in order
    tasks,                \* per invocation: where it is suspended, its locals
    greeting,             \* sendInitialGreeting: "awaitTts" | "done"
    aux,                  \* per invocation: bookkeeping for the properties
    ghost                 \* per session: bookkeeping for the properties:
                          \* lastStartedFrom is the controller state in which
                          \* the final event of the invocation begun by the
                          \* last step was received ("none" when the last
                          \* step began none); ignoredPartial tells that a
                          \* partial event was handled since the controller
                          \* last became Interrupted; lastOutcome is how the
                          \* last resumption of a processTranscript invocation
                          \* ended when it ended in the catch block or with
                          \* the socket not open ("none" otherwise)

vars == <<conversationHistory, isAiSpeaking, isInterrupted, recognizeStream,
          readyState, outbound, tasks, greeting, aux, ghost>>

----------------------------------------------------------------------------
\* Strings

IsSpace(c) == c = SP

RECURSIVE TrimStart(_)
TrimStart(str) ==
    IF str # <<>> /\ IsSpace(Head(str)) THEN TrimStart(Tail(str)) ELSE str

RECURSIVE TrimEnd(_)
TrimEnd(str) ==
    IF str # <<>> /\ IsSpace(str[Len(str)])
    THEN TrimEnd(SubSeq(str, 1, Len(str) - 1))
    ELSE str

\* String.prototype.trim
trim(str) == TrimEnd(TrimStart(str))

\* !transcript : undefined and "" are falsy, every other string is truthy.
Falsy(transcript) == transcript = Undefined \/ transcript = <<>>

----------------------------------------------------------------------------
\* Messages on the outbound channel

StopMsg == [command |-> "stop_playing"]
AudioMsg(t) == [audioContent |-> t]

IsStop(m) == "command" \in DOMAIN m
IsAudio(m) == "audioContent" \in DOMAIN m

wsSend_Unguarded(out, m) == Append(out, m)

\* ws.send guarded by ws.readyState === WebSocket.OPEN
wsSend(out, m) == IF readyState = "OPEN" THEN Append(out, m) ELSE out

----------------------------------------------------------------------------
\* The session as a record, so that a handler is the composition of the
\* functions it calls.

Session ==
    [conversationHistory |-> conversationHistory,
     isAiSpeaking        |-> isAiSpeaking,
     isInterrupted       |-> isInterrupted,
     recognizeStream     |-> recognizeStream,
     outbound            |-> outbound,
     tasks               |-> tasks,
     aux                 |-> aux,
     ghost               |-> ghost]

Commit(s) ==
    /\ conversationHistory' = s.conversationHistory
    /\ isAiSpeaking' = s.isAiSpeaking
    /\ isInterrupted' = s.isInterrupted
    /\ recognizeStream' = s.recognizeStream
    /\ outbound' = s.outbound
    /\ tasks' = s.tasks
    /\ aux' = s.aux
    /\ ghost' = s.ghost

ControllerState(s) ==
    IF s.isAiSpeaking THEN "AgentSpeaking"
    ELSE IF s.isInterrupted THEN "Interrupted"
    ELSE "Idle"

Started(s) == {t \in Turns : s.tasks[t].pc # "new"}
InFlight(s) == {t \in Turns : s.tasks[t].pc \in {"awaitLlm", "awaitTts"}}

\* Bookkeeping: which stage each suspended invocation was in when
\* cancellation was first signaled.
MarkCancelled(s) ==
    [t \in Turns |->
        IF t \in InFlight(s) /\ s.aux[t].cancelled = "no"
        THEN [s.aux[t] EXCEPT !.cancelled =
                 IF s.tasks[t].pc = "awaitLlm" THEN "beforeStage1"
                 ELSE "beforeStage2"]
        ELSE s.aux[t]]

\* Bookkeeping: a text-bearing event was handled while the invocation was
\* suspended.
MarkDisturbed(s) ==
    [t \in Turns |->
        IF t \in InFlight(s) THEN [s.aux[t] EXCEPT !.disturbed = TRUE]
        ELSE s.aux[t]]

interruptAi_NoStop(s) ==
    IF s.isAiSpeaking
    THEN [s EXCEPT !.isAiSpeaking = FALSE,
                   !.isInterrupted = TRUE,
                   !.aux = MarkCancelled(s),
                   !.ghost.ignoredPartial = FALSE]
    ELSE s

interruptAi_KeepsSpeaking(s) ==
    IF s.isAiSpeaking
    THEN [s EXCEPT !.isInterrupted = TRUE,
                   !.outbound = wsSend(@, StopMsg),
                   !.aux = MarkCancelled(s),
                   !.ghost.ignoredPartial = FALSE]
    ELSE s

interruptAi(s) ==
    IF s.isAiSpeaking
    THEN [s EXCEPT !.isAiSpeaking = FALSE,
                   !.isInterrupted = TRUE,
                   !.outbound = wsSend(@, StopMsg),
                   !.aux = MarkCancelled(s),
                   !.ghost.ignoredPartial = FALSE]
    ELSE s

NewTask == [pc |-> "new", history |-> <<>>, claudeResponse |-> <<>>]

\* An invocation that returned: its locals are gone.
DoneTask == [NewTask EXCEPT !.pc = "done"]

NewAux ==
    [startPos |-> 0, cancelled |-> "no", disturbed |-> FALSE,
     llmCalls |-> 0, ttsCalls |-> 0, flagAtCall |-> FALSE]

\* The id the next invocation gets.
NextTurn(s) == Cardinality(Started(s)) + 1

\* processTranscript up to its first await; from is the controller state in
\* which the event that led here was received (bookkeeping).
processTranscript_CallBeforePush(s, transcript, from) ==
    IF trim(transcript) = <<>> THEN s
    ELSE
        LET t == NextTurn(s)
            h == Append(s.conversationHistory,
                        [role |-> "user", content |-> transcript, turn |-> t])
        IN [s EXCEPT
              !.conversationHistory = h,
              !.isAiSpeaking = TRUE,
              !.tasks[t] = [pc |-> "awaitLlm", history |-> s.conversationHistory,
                            claudeResponse |-> <<>>],
              !.aux[t] = [NewAux EXCEPT !.startPos = Len(s.outbound),
                                        !.llmCalls = 1,
                                        !.flagAtCall = s.isAiSpeaking],
              !.ghost.lastStartedFrom = from]

processTranscript(s, transcript, from) ==
    IF trim(transcript) = <<>> THEN s
    ELSE
        LET t == NextTurn(s)
            h == Append(s.conversationHistory,
                        [role |-> "user", content |-> transcript, turn |-> t])
        IN [s EXCEPT
              !.conversationHistory = h,
              !.isAiSpeaking = TRUE,
              !.tasks[t] = [pc |-> "awaitLlm", history |-> h,
                            claudeResponse |-> <<>>],
              !.aux[t] = [NewAux EXCEPT !.startPos = Len(s.outbound),
                                        !.llmCalls = 1,
                                        !.flagAtCall = s.isAiSpeaking],
              !.ghost.lastStartedFrom = from]

\* recognizeStream.on('data')
onData_NoInterrupt(s, transcript, isFinal) ==
    IF Falsy(transcript) THEN s
    ELSE
        LET from == ControllerState(s)
            s1 == [s EXCEPT !.aux = MarkDisturbed(s),
                            !.ghost.lastStartedFrom = "none"]
        IN IF s1.isInterrupted
           THEN IF isFinal
                THEN processTranscript([s1 EXCEPT !.isInterrupted = FALSE],
                                           transcript, from)
                ELSE [s1 EXCEPT !.ghost.ignoredPartial =
                                   (from = "Interrupted") \/ @]
           ELSE IF isFinal
                THEN processTranscript(s1, transcript, from)
                ELSE s1

onData_StaysInterrupted(s, transcript, isFinal) ==
    IF Falsy(transcript) THEN s
    ELSE
        LET from == ControllerState(s)
            s0 == [s EXCEPT !.aux = MarkDisturbed(s),
                            !.ghost.lastStartedFrom = "none"]
            s1 == IF s0.isAiSpeaking THEN interruptAi(s0) ELSE s0
        IN IF s1.isInterrupted
           THEN IF isFinal
                THEN processTranscript(s1, transcript, from)
                ELSE [s1 EXCEPT !.ghost.ignoredPartial =
                                   (from = "Interrupted") \/ @]
           ELSE IF isFinal
                THEN processTranscript(s1, transcript, from)
                ELSE s1

onData(s, transcript, isFinal) ==
    IF Falsy(transcript) THEN s
    ELSE
        LET from == ControllerState(s)
            s0 == [s EXCEPT !.aux = MarkDisturbed(s),
                            !.ghost.lastStartedFrom = "none"]
            s1 == IF s0.isAiSpeaking THEN interruptAi(s0) ELSE s0
        IN IF s1.isInterrupted
           THEN IF isFinal
                THEN processTranscript([s1 EXCEPT !.isInterrupted = FALSE],
                                           transcript, from)
                ELSE [s1 EXCEPT !.ghost.ignoredPartial =
                                   (from = "Interrupted") \/ @]
           ELSE IF isFinal
                THEN processTranscript(s1, transcript, from)
                ELSE s1

\* Whether handling the event begins a processTranscript invocation that
\* passes the trim check.
StartsTurn(transcript, isFinal) ==
    ~Falsy(transcript) /\ isFinal /\ trim(transcript) # <<>>

----------------------------------------------------------------------------
\* Actions

Init ==
    /\ conversationHistory = <<>>
    /\ isAiSpeaking = TRUE
    /\ isInterrupted = FALSE
    /\ recognizeStream = "live"
    /\ readyState = "OPEN"
    /\ outbound = <<>>
    /\ tasks = [t \in Turns |-> NewTask]
    /\ greeting = "awaitTts"
    /\ aux = [t \in Turns |-> NewAux]
    /\ ghost = [lastStartedFrom |-> "none", ignoredPartial |-> FALSE,
                lastOutcome |-> "none"]

\* A recognition result arrives.
OnData(transcript, isFinal) ==
    /\ recognizeStream = "live"
    /\ StartsTurn(transcript, isFinal) => NextTurn(Session) <= MaxTurns
    /\ Commit(onData(Session, transcript, isFinal))
    /\ UNCHANGED <<readyState, greeting>>

\* Bookkeeping at the start of every resumption of a task.
Resumed(s) ==
    [s EXCEPT !.ghost.lastStartedFrom = "none", !.ghost.lastOutcome = "none"]

\* The catch block of processTranscript.
catch_KeepsSpeaking(s) == s

catch_RollsBackReply(s) ==
    [s EXCEPT !.isAiSpeaking = FALSE,
              !.conversationHistory = SubSeq(@, 1, Len(@) - 1)]

catch_Rethrows(s) ==
    [s EXCEPT !.isAiSpeaking = FALSE, !.recognizeStream = "destroyed"]

catch(s) == [s EXCEPT !.isAiSpeaking = FALSE]

\* processTranscript from the return of getClaudeResponse (line 59) to the
\* call of synthesizeSpeech (line 69), or to its end.
processTranscriptAfterLlm(s, t, ok, reply) ==
    IF ~ok
    THEN [catch(s) EXCEPT !.tasks[t] = DoneTask,
                          !.ghost.lastOutcome = "llmError"]
    ELSE IF ~s.isAiSpeaking
    THEN [s EXCEPT !.tasks[t] = DoneTask]
    ELSE [s EXCEPT
            !.conversationHistory =
                Append(@, [role |-> "assistant", content |-> reply,
                           turn |-> t]),
            !.tasks[t].pc = "awaitTts",
            !.tasks[t].claudeResponse = reply,
            !.aux[t].ttsCalls = @ + 1]

\* processTranscript from the return of synthesizeSpeech (line 69) to its end.
processTranscriptAfterTts(s, t, ok) ==
    IF ~ok
    THEN [catch(s) EXCEPT !.tasks[t] = DoneTask,
                          !.ghost.lastOutcome = "ttsError"]
    ELSE IF ~s.isAiSpeaking
    THEN [s EXCEPT !.tasks[t] = DoneTask]
    ELSE [s EXCEPT !.tasks[t] = DoneTask,
                   !.outbound = wsSend(@, AudioMsg(t)),
                   !.ghost.lastOutcome =
                       IF readyState = "OPEN" THEN "none" ELSE "audioNotSent"]

\* getClaudeResponse settles; processTranscript resumes after line 59.
LlmReturns(t, ok, reply) ==
    /\ tasks[t].pc = "awaitLlm"
    /\ Commit(processTranscriptAfterLlm(Resumed(Session), t, ok, reply))
    /\ UNCHANGED <<readyState, greeting>>

\* synthesizeSpeech settles; processTranscript resumes after line 69.
TtsReturns(t, ok) ==
    /\ tasks[t].pc = "awaitTts"
    /\ Commit(processTranscriptAfterTts(Resumed(Session), t, ok))
    /\ UNCHANGED <<readyState, greeting>>

\* The greeting's synthesizeSpeech settles: sendInitialGreeting finishes and
\* the then-callback of the connection handler runs.
GreetingReturns(ok) ==
    /\ greeting = "awaitTts"
    /\ greeting' = "done"
    /\ outbound' = IF ok THEN wsSend(outbound, AudioMsg(GREETING)) ELSE outbound
    /\ isAiSpeaking' = FALSE
    /\ ghost' = Resumed(Session).ghost
    /\ UNCHANGED <<conversationHistory, isInterrupted, recognizeStream,
                   readyState, tasks, aux>>

\* The transport starts closing: ws.readyState is no longer OPEN, the close
\* event has not been emitted yet.
WsClosing ==
    /\ readyState = "OPEN"
    /\ readyState' = "CLOSING"
    /\ UNCHANGED <<conversationHistory, isAiSpeaking, isInterrupted,
                   recognizeStream, outbound, tasks, greeting, aux, ghost>>

\* ws.on('close')
OnClose ==
    /\ readyState # "CLOSED"
    /\ readyState' = "CLOSED"
    /\ recognizeStream' = "destroyed"
    /\ UNCHANGED <<conversationHistory, isAiSpeaking, isInterrupted,
                   outbound, tasks, greeting, aux, ghost>>

Next ==
    \/ \E transcript \in Transcripts, isFinal \in BOOLEAN :
           OnData(transcript, isFinal)
    \/ \E t \in Turns, ok \in BOOLEAN, reply \in Replies :
           LlmReturns(t, ok, reply)
    \/ \E t \in Turns, ok \in BOOLEAN : TtsReturns(t, ok)
    \/ \E ok \in BOOLEAN : GreetingReturns(ok)
    \/ WsClosing
    \/ OnClose

Spec == Init /\ [][Next]_vars

----------------------------------------------------------------------------
\* What the properties talk about

\* The entries the invocation t pushed as the agent's reply.
AgentEntries(t) ==
    Cardinality({i \in DOMAIN conversationHistory :
                    /\ conversationHistory[i].role = "assistant"
                    /\ conversationHistory[i].turn = t})

\* The entries pushed for the caller utterance that began invocation t.
UserEntries(t) ==
    Cardinality({i \in DOMAIN conversationHistory :
                    /\ conversationHistory[i].role = "user"
                    /\ conversationHistory[i].turn = t})

\* How often the audio of t (GREETING for the greeting) was sent.
AudioCount(t) ==
    Cardinality({i \in DOMAIN outbound :
                    IsAudio(outbound[i]) /\ outbound[i].audioContent = t})

StopsIn(positions) ==
    Cardinality({i \in positions \cap DOMAIN outbound : IsStop(outbound[i])})

\* The number of messages that had been sent when the task began.
StartPos(t) == IF t = GREETING THEN 0 ELSE aux[t].startPos

\* The controller states of the specification, read off the two flags.
Idle == ~isAiSpeaking /\ ~isInterrupted
AgentSpeaking == isAiSpeaking /\ ~isInterrupted
Interrupted == ~isAiSpeaking /\ isInterrupted

\* A transcript with text left after trimming.
Usable(transcript) == ~Falsy(transcript) /\ trim(transcript) # <<>>

ProgramVars ==
    <<conversationHistory, isAiSpeaking, isInterrupted, recognizeStream,
      readyState, outbound, tasks, greeting>>

----------------------------------------------------------------------------
\* C1: a turn whose cancellation was signaled while its language-model call
\* was outstanding never pushes an agent reply, never requests synthesis and
\* never has audio sent, also when a new turn began in the meantime.
C1_CancelledBeforeStage1IsSilent ==
    \A t \in Turns :
        aux[t].cancelled = "beforeStage1" =>
            /\ AgentEntries(t) = 0
            /\ aux[t].ttsCalls = 0
            /\ AudioCount(t) = 0

\* C2: a turn whose cancellation was signaled while its synthesis call was
\* outstanding has exactly one agent entry in the history and never has its
\* audio sent, also when a new turn began in the meantime.
C2_CancelledBeforeStage2IsMute ==
    \A t \in Turns :
        aux[t].cancelled = "beforeStage2" =>
            /\ AgentEntries(t) = 1
            /\ AudioCount(t) = 0

\* C3: at most one processTranscript invocation is past its first checkpoint
\* and not yet finished.
C3_AtMostOnePastStage1 ==
    Cardinality({t \in Turns : tasks[t].pc = "awaitTts"}) <= 1

\* C4: after a stop signal, the next audio sent belongs to a turn that began
\* after that stop signal was sent (never to the greeting or to a turn that
\* was already running).
C4_NoStaleAudioAfterStop ==
    \A i \in DOMAIN outbound, j \in DOMAIN outbound :
        ( /\ i < j
          /\ IsStop(outbound[i])
          /\ IsAudio(outbound[j])
          /\ \A k \in (i + 1)..(j - 1) : ~IsAudio(outbound[k]) )
        => StartPos(outbound[j].audioContent) >= i

\* C5: every agent entry of the history directly follows the caller entry of
\* its own turn (so no two agent entries are adjacent).
C5_HistoryAlternates ==
    \A i \in DOMAIN conversationHistory :
        conversationHistory[i].role = "assistant" =>
            /\ i > 1
            /\ conversationHistory[i - 1].role = "user"
            /\ conversationHistory[i - 1].turn = conversationHistory[i].turn

\* The position in outbound at which the k-th task began: 0 for the greeting,
\* the end of outbound for a turn that has not begun.
Boundary(k) ==
    IF k = GREETING THEN 0
    ELSE IF k \in Started(Session) THEN aux[k].startPos
    ELSE Len(outbound)

StopsOncePerTurn ==
    \A k \in 0..MaxTurns : StopsIn((Boundary(k) + 1)..Boundary(k + 1)) <= 1

\* C6: between the start of a turn and the start of the next one (the
\* finalization of the interrupting utterance) at most one stop signal is
\* sent, however many partial events arrive; the controller becomes
\* Interrupted only by cancelling a speaking turn, a text-bearing partial
\* event received while AgentSpeaking leaves it Interrupted, it stays
\* Interrupted until a final event is handled, and a partial event handled
\* while Interrupted changes neither the flags nor the outbound channel.
C6_CancellationIdempotent ==
    /\ []StopsOncePerTurn
    /\ [][ /\ (~isInterrupted /\ isInterrupted') =>
                (isAiSpeaking /\ ~isAiSpeaking')
           /\ (isInterrupted /\ ~isInterrupted') =>
                (\E tr \in Transcripts : OnData(tr, TRUE))
           /\ \A tr \in Transcripts :
                /\ (AgentSpeaking /\ ~Falsy(tr) /\ OnData(tr, FALSE)) =>
                      Interrupted'
                /\ (Interrupted /\ OnData(tr, FALSE)) =>
                      UNCHANGED ProgramVars
         ]_vars

\* Reached: Interrupted after one stop signal, with a further partial event
\* handled since.
C6_Witness ==
    /\ Interrupted
    /\ ghost.ignoredPartial
    /\ StopsIn(DOMAIN outbound) = 1

\* What beginning exactly one turn for the transcript tr amounts to: one more
\* invocation, suspended in its language-model call, whose argument is the
\* history ending with the caller entry just pushed.
BeginsOneTurn(tr) ==
    LET t == NextTurn(Session) IN
    /\ {u \in Turns : tasks'[u].pc # "new"} = Started(Session) \cup {t}
    /\ conversationHistory' =
           Append(conversationHistory,
                  [role |-> "user", content |-> tr, turn |-> t])
    /\ tasks'[t].pc = "awaitLlm"
    /\ tasks'[t].history = conversationHistory'
    /\ aux'[t].llmCalls = 1
    /\ \A u \in Turns \ {t} : tasks'[u] = tasks[u]
    /\ isAiSpeaking'
    /\ ~isInterrupted'

\* C7: a final event with usable text handled while Idle begins exactly one
\* turn: the utterance is pushed once, before the language-model call is
\* made, and the controller is AgentSpeaking afterwards; a partial event
\* handled while Idle changes nothing.
C7_IdleFinalStartsOneTurn ==
    [][ \A tr \in Transcripts :
          /\ (Idle /\ Usable(tr) /\ OnData(tr, TRUE)) =>
                (BeginsOneTurn(tr) /\ outbound' = outbound)
          /\ (Idle /\ OnData(tr, FALSE)) => UNCHANGED ProgramVars
      ]_vars

\* Reached: the last step began a turn for a final event received while Idle.
C7_Witness ==
    /\ ghost.lastStartedFrom = "Idle"
    /\ AgentSpeaking
    /\ \E t \in Turns : tasks[t].pc = "awaitLlm" /\ UserEntries(t) = 1

\* C8: a turn during which no text-bearing event is handled and whose two
\* collaborator calls succeed while the channel is open has made one
\* language-model call and one synthesis call and has its audio sent exactly
\* once when synthesis returns, leaving the controller AgentSpeaking,
\* whatever the greeting and earlier turns did meanwhile.
C8_UndisturbedTurnDelivers ==
    [][ \A t \in Turns :
          (~aux[t].disturbed /\ readyState = "OPEN" /\ TtsReturns(t, TRUE)) =>
                /\ aux'[t].llmCalls = 1
                /\ aux'[t].ttsCalls = 1
                /\ AudioCount(t)' = 1
                /\ isAiSpeaking'
      ]_vars

\* C9: an event whose transcript is absent, empty or whitespace-only is
\* discarded in every controller state: flags, history, outbound channel and
\* tasks stay as they are.
C9_NoTextIsDiscarded ==
    [][ \A tr \in Transcripts, fin \in BOOLEAN :
          (~Usable(tr) /\ OnData(tr, fin)) => UNCHANGED ProgramVars
      ]_vars

\* C10: a final event with usable text handled while Interrupted leaves
\* Interrupted and begins exactly one turn for that text: one caller entry
\* pushed, one language-model call whose history ends with it, and the
\* controller AgentSpeaking afterwards.
C10_InterruptedFinalStartsOneTurn ==
    [][ \A tr \in Transcripts :
          (Interrupted /\ Usable(tr) /\ OnData(tr, TRUE)) =>
              /\ BeginsOneTurn(tr)
              /\ Len(tasks'[NextTurn(Session)].history) > 0
              /\ tasks'[NextTurn(Session)].history[
                     Len(tasks'[NextTurn(Session)].history)] =
                   [role |-> "user", content |-> tr,
                    turn |-> NextTurn(Session)]
              /\ outbound' = outbound
      ]_vars

\* Reached: the last step began a turn for a final event received while
\* Interrupted.
C10_Witness ==
    /\ ghost.lastStartedFrom = "Interrupted"
    /\ AgentSpeaking
    /\ \E t \in Turns : tasks[t].pc = "awaitLlm" /\ UserEntries(t) = 1

\* C11: nothing of the caller is processed while the greeting is
\* outstanding: no step taken before sendInitialGreeting has completed sends
\* a stop signal or begins a turn, and the completion of the greeting leaves
\* the controller Idle and every caller-driven turn as it was.
C11_GreetingBeforeCallerInput ==
    [][ /\ greeting = "awaitTts" =>
              /\ StopsIn(DOMAIN outbound)' = StopsIn(DOMAIN outbound)
              /\ Started(Session)' = Started(Session)
        /\ (\E ok \in BOOLEAN : GreetingReturns(ok)) =>
              /\ Idle'
              /\ tasks' = tasks
              /\ (InFlight(Session) # {} => isAiSpeaking' = isAiSpeaking)
      ]_vars

IsPrefix(a, b) == Len(a) <= Len(b) /\ SubSeq(b, 1, Len(a)) = a

\* An invocation that has returned does nothing any more.
DoneIsFinal ==
    \A t \in Turns :
        tasks[t].pc = "done" =>
            /\ tasks'[t].pc = "done"
            /\ AgentEntries(t)' = AgentEntries(t)
            /\ AudioCount(t)' = AudioCount(t)
            /\ aux'[t].ttsCalls = aux[t].ttsCalls

\* C12: when the language-model call of a turn fails, the invocation ends
\* there: isAiSpeaking is cleared, the history gets no agent entry for the
\* turn, no synthesis is requested and no audio is sent, then or later.
C12_LlmFailureAbandonsTurn ==
    [][ /\ \A t \in Turns, r \in Replies :
              LlmReturns(t, FALSE, r) =>
                  /\ ~isAiSpeaking'
                  /\ conversationHistory' = conversationHistory
                  /\ outbound' = outbound
                  /\ tasks'[t].pc = "done"
                  /\ aux'[t].ttsCalls = 0
                  /\ AgentEntries(t)' = 0
                  /\ AudioCount(t)' = 0
        /\ DoneIsFinal
      ]_vars

\* Reached: the last resumption ended in the catch block after the
\* language-model call, and its turn left no agent entry.
C12_Witness ==
    /\ ghost.lastOutcome = "llmError"
    /\ ~isAiSpeaking
    /\ \E t \in Turns :
          /\ tasks[t].pc = "done"
          /\ UserEntries(t) = 1
          /\ AgentEntries(t) = 0
          /\ aux[t].ttsCalls = 0

\* C13: when the synthesis call of a turn fails, the reply pushed before the
\* call stays in the history (which only ever grows at its end), no audio is
\* sent for the turn and isAiSpeaking is cleared.
C13_TtsFailureKeepsReply ==
    [][ /\ \A t \in Turns :
              TtsReturns(t, FALSE) =>
                  /\ conversationHistory' = conversationHistory
                  /\ AgentEntries(t)' = 1
                  /\ outbound' = outbound
                  /\ AudioCount(t)' = 0
                  /\ ~isAiSpeaking'
                  /\ tasks'[t].pc = "done"
        /\ IsPrefix(conversationHistory, conversationHistory')
      ]_vars

\* Reached: the last resumption ended in the catch block after the synthesis
\* call; the reply is in the history and no audio of the turn was sent.
C13_Witness ==
    /\ ghost.lastOutcome = "ttsError"
    /\ ~isAiSpeaking
    /\ \E t \in Turns :
          /\ tasks[t].pc = "done"
          /\ AgentEntries(t) = 1
          /\ AudioCount(t) = 0

Failed == ghost.lastOutcome \in {"llmError", "ttsError"}

\* C14: a collaborator failure leaves the transcript stream and the socket
\* as they were, and the next final event with usable text handled after a
\* failure begins a turn (caller entry pushed, language-model call made).
C14_FailureKeepsSessionAlive ==
    [][ /\ \A t \in Turns, r \in Replies :
              (LlmReturns(t, FALSE, r) \/ TtsReturns(t, FALSE)) =>
                  (Failed' /\ UNCHANGED <<recognizeStream, readyState>>)
        /\ \A tr \in Transcripts :
              (Failed /\ Usable(tr) /\ OnData(tr, TRUE)) => BeginsOneTurn(tr)
      ]_vars

\* Reached: a turn was begun by an event handled after a failure, with no
\* other resumption in between.
C14_Witness ==
    /\ Failed
    /\ ghost.lastStartedFrom # "none"
    /\ \E t \in Turns :
          /\ tasks[t].pc = "awaitLlm"
          /\ UserEntries(t) = 1
          /\ aux[t].llmCalls = 1

\* C15: at every call of processTranscript that begins a turn isAiSpeaking
\* is false: a speaking turn has been cancelled by interruptAi earlier in the
\* same handler.
C15_FlagClearWhenTurnBegins ==
    \A t \in Started(Session) : ~aux[t].flagAtCall

\* Reached: a turn begun by a final event received while AgentSpeaking, with
\* the turn it superseded still suspended.
C15_Witness ==
    /\ ghost.lastStartedFrom = "AgentSpeaking"
    /\ Cardinality(InFlight(Session)) = 2
    /\ \E t \in Turns :
          /\ tasks[t].pc = "awaitLlm"
          /\ ~aux[t].flagAtCall
          /\ \E u \in Turns \ {t} : aux[u].cancelled # "no"

\* C16: while the socket is not open nothing is sent: neither the audio of a
\* task that resumes nor the stop signal of an interruption.
C16_NothingSentWhenNotOpen ==
    [][ readyState # "OPEN" => outbound' = outbound ]_vars

\* Reached: with the socket not open, the controller was interrupted without
\* any stop signal ever sent, and the last resumption passed both checkpoints
\* and sent nothing.
C16_Witness ==
    /\ readyState # "OPEN"
    /\ Interrupted
    /\ StopsIn(DOMAIN outbound) = 0
    /\ ghost.lastOutcome = "audioNotSent"
    /\ \E t \in Turns : tasks[t].pc = "done" /\ AudioCount(t) = 0

\* C17: a usable-text event handled while AgentSpeaking clears the flag and
\* sends the stop signal (when the socket is open) before a turn is begun; a
\* partial event leaves the controller Interrupted, a final event leaves it
\* AgentSpeaking with one turn begun for that text in the same step, the
\* suspended invocations having been cancelled.
C17_InterruptThenRestart ==
    [][ \A tr \in Transcripts :
          /\ (AgentSpeaking /\ Usable(tr) /\ OnData(tr, FALSE)) =>
                /\ Interrupted'
                /\ outbound' = wsSend(outbound, StopMsg)
                /\ conversationHistory' = conversationHistory
                /\ tasks' = tasks
          /\ (AgentSpeaking /\ Usable(tr) /\ OnData(tr, TRUE)) =>
                /\ BeginsOneTurn(tr)
                /\ outbound' = wsSend(outbound, StopMsg)
                /\ aux'[NextTurn(Session)].startPos = Len(outbound')
                /\ ~aux'[NextTurn(Session)].flagAtCall
                /\ \A u \in InFlight(Session) : aux'[u].cancelled # "no"
      ]_vars

\* Reached: the last step, a final event received while AgentSpeaking on an
\* open socket, sent the stop signal and began a turn.
C17_Witness ==
    /\ ghost.lastStartedFrom = "AgentSpeaking"
    /\ readyState = "OPEN"
    /\ AgentSpeaking
    /\ Len(outbound) > 0
    /\ IsStop(outbound[Len(outbound)])
    /\ \E t \in Turns : tasks[t].pc = "awaitLlm" /\ aux[t].startPos = Len(outbound)

\* C18: an invocation suspended in its language-model call when the
\* connection closed pushes nothing to the history and requests no synthesis
\* when the call returns.
C18_ClosedAbandonsPendingWork ==
    [][ \A t \in Turns, ok \in BOOLEAN, r \in Replies :
          (readyState = "CLOSED" /\ LlmReturns(t, ok, r)) =>
              /\ conversationHistory' = conversationHistory
              /\ aux'[t].ttsCalls = aux[t].ttsCalls
              /\ tasks'[t].pc = "done"
      ]_vars

\* C19: isAiSpeaking and isInterrupted are never both true.
C19_FlagsExclusive == ~(isAiSpeaking /\ isInterrupted)

\* Reached: Interrupted while an invocation is suspended and the greeting
\* has completed; and the flags then name exactly one controller state.
C19_Witness ==
    /\ Interrupted
    /\ greeting = "done"
    /\ InFlight(Session) # {}
    /\ readyState = "OPEN"
    /\ StopsIn(DOMAIN outbound) > 0

====
